---- MODULE Spec2Model ----
(***************************************************************************)
(* Device-driver registry and dispatch of the daemon (NVIDIA / AMD / CDI): *)
(* host probing, the composite "first successful" dispatcher, the hook     *)
(* mutator setNvidiaGPUs and the CDI injector injectDevices.               *)
(*                                                                         *)
(* Strings.  A Go string is modelled as a sequence of atoms.  A literal of *)
(* the source that is never taken apart is one atom ("nvidia.com/gpu");    *)
(* device identifiers are sequences of one-character atoms so that the     *)
(* separator "=" can be found in them.  Concatenation is \o.               *)
(***************************************************************************)
EXTENDS Integers, Sequences, FiniteSets, TLC

VARIABLES phase, onPath, probedPath, deviceDrivers, dev, spec, ncalls, last, fn

vars == <<phase, onPath, probedPath, deviceDrivers, dev, spec, ncalls, last, fn>>

(***************************************************************************)
(* Bounds of the model.                                                    *)
(***************************************************************************)
\* largest Count of a request given to the pure functions
MaxCount == 11
\* number of mutator calls made on one runtime specification
MaxCalls == 2

(***************************************************************************)
(* strings and strconv                                                     *)
(***************************************************************************)
Digits == <<"0", "1", "2", "3", "4", "5", "6", "7", "8", "9">>

RECURSIVE ItoaNat(_)
ItoaNat(n) ==
  IF n < 10 THEN <<Digits[n + 1]>>
  ELSE ItoaNat(n \div 10) \o <<Digits[(n % 10) + 1]>>

\* strconv.Itoa: the decimal representation of i
Itoa(i) == IF i < 0 THEN <<"-">> \o ItoaNat(-i) ELSE ItoaNat(i)

\* strings.Join(elems, sep)
RECURSIVE Join(_, _)
Join(elems, sep) ==
  IF Len(elems) = 0 THEN <<>>
  ELSE IF Len(elems) = 1 THEN elems[1]
  ELSE elems[1] \o <<sep>> \o Join(Tail(elems), sep)

\* strings.Index(s, sep) for a one-character separator, 1-based; 0 if absent
Index(s, sep) ==
  IF \E k \in 1..Len(s) : s[k] = sep
  THEN CHOOSE k \in 1..Len(s) : s[k] = sep /\ \A j \in 1..(k - 1) : s[j] # sep
  ELSE 0

\* strings.SplitN(s, sep, n) for n = 2: at most two substrings, the second
\* being the unsplit remainder after the first separator
SplitN2(s, sep) ==
  LET k == Index(s, sep) IN
  IF k = 0 THEN <<s>>
  ELSE <<SubSeq(s, 1, k - 1), SubSeq(s, k + 1, Len(s))>>

\* number of occurrences of the atom c in s
Occurrences(s, c) == Cardinality({k \in 1..Len(s) : s[k] = c})

(***************************************************************************)
(* getRequestedDevicesIDs, countToDevices, normalizeDeviceID               *)
(***************************************************************************)
\* countToDevices returns the list 0, 1, ... count-1 of deviceIDs.
countToDevices(count) == [k \in 1..count |-> Itoa(k - 1)]

getRequestedDevicesIDsFromOne(req) ==
  IF Len(req.DeviceIDs) > 0 THEN req.DeviceIDs
  ELSE IF req.Count > 0 THEN [k \in 1..req.Count |-> Itoa(k)]
  ELSE IF req.Count < 0 THEN << <<"a", "l", "l">> >>
  ELSE <<>>

getRequestedDevicesIDsAllAsCount(req) ==
  IF Len(req.DeviceIDs) > 0 THEN req.DeviceIDs
  ELSE IF req.Count > 0 THEN countToDevices(req.Count)
  ELSE IF req.Count < 0 THEN countToDevices(1)
  ELSE <<>>

\* getRequestedDeviceIDs returns the list of requested devices by ID based on
\* the device request.
getRequestedDevicesIDs(req) ==
  IF Len(req.DeviceIDs) > 0 THEN req.DeviceIDs
  ELSE IF req.Count > 0 THEN countToDevices(req.Count)
  ELSE IF req.Count < 0 THEN << <<"a", "l", "l">> >>
  ELSE <<>>

normalizeDeviceIDExactlyOne(i, deviceID) ==
  IF Occurrences(deviceID, "=") = 1 THEN deviceID
  ELSE i.defaultCDIDeviceKind \o <<"=">> \o deviceID

\* normalizeDeviceID ensures that the specified deviceID is a fully-qualified
\* CDI device name.
normalizeDeviceID(i, deviceID) ==
  LET parts == SplitN2(deviceID, "=") IN
  IF Len(parts) = 2 THEN deviceID
  ELSE i.defaultCDIDeviceKind \o <<"=">> \o deviceID

(***************************************************************************)
(* Data model: errors, device request, device instance, runtime spec       *)
(***************************************************************************)
Nil == [kind |-> "nil"]

\* errConflictCountDeviceIDs
errConflictCountDeviceIDs ==
  [kind |-> "cannot set both Count and DeviceIDs on device request"]

\* incompatibleDeviceRequest{driver, capabilities}
incompatibleDeviceRequest(driver, caps) ==
  [kind |-> "incompatibleDeviceRequest", driver |-> driver, caps |-> caps]

\* fmt.Errorf("no CDI device driver registered: %w", err)
noCDIDriverError(err) ==
  [kind |-> "no CDI device driver registered", wrapped |-> err]

errorsJoinDropsEarlier(errs, err) ==
  IF err = Nil THEN errs ELSE [kind |-> "joinError", errs |-> <<err>>]

\* errors.Join(errs, err): nil arguments are discarded, nil if none is left
errorsJoin(errs, err) ==
  LET es == SelectSeq(<<errs, err>>, LAMBDA e : e # Nil) IN
  IF Len(es) = 0 THEN Nil ELSE [kind |-> "joinError", errs |-> es]

\* the causes an error holds, in order (the walk errors.Is makes through
\* Unwrap() []error)
RECURSIVE Causes(_)
RECURSIVE CausesOfAll(_)
CausesOfAll(es) ==
  IF Len(es) = 0 THEN <<>> ELSE Causes(es[1]) \o CausesOfAll(Tail(es))
Causes(e) ==
  IF e = Nil THEN <<>>
  ELSE IF e.kind = "joinError" THEN CausesOfAll(e.errs)
  ELSE <<e>>

nvidiaContainerRuntimeHookExecutableName == "nvidia-container-runtime-hook"
nvidiaCDIHookExecutableName == "nvidia-cdi-hook"
amdContainerRuntimeExecutableName == "amd-container-runtime"

Executables ==
  {nvidiaContainerRuntimeHookExecutableName, nvidiaCDIHookExecutableName,
   amdContainerRuntimeExecutableName}

\* These are NVIDIA-specific capabilities
allNvidiaCaps == {"compute", "compat32", "graphics", "utility", "video", "display"}

\* exec.LookPath(file) on a search path holding the executables of path
LookPath(file, path) ==
  IF file \in path
  THEN [path |-> <<"/usr/bin/", file>>, err |-> Nil]
  ELSE [path |-> <<>>, err |-> [kind |-> "exec.ErrNotFound", name |-> file]]

\* os.Environ() of the daemon process
osEnviron == << <<"PATH=/usr/bin">> >>

NilMap == [isNil |-> TRUE, kv |-> {}]
NilHooks == [isNil |-> TRUE, Prestart |-> <<>>]

\* specs.Spec as the mutators see it: Process.Env, Hooks.Prestart, and the
\* device references the CDI driver adds
EmptySpec == [Process |-> [Env |-> <<>>], Hooks |-> NilHooks, CDIDevices |-> <<>>]

\* the updateSpec function values of the package
NilFunc == [fn |-> "nil"]
SetNvidiaGPUsFunc == [fn |-> "setNvidiaGPUs"]
InjectDevicesFunc(kind) == [fn |-> "injectDevices", i |-> [defaultCDIDeviceKind |-> kind]]
SetAMDGPUsFunc == [fn |-> "setAMDGPUs"]
InjectCDIDevicesFunc == [fn |-> "injectCDIDevices"]
FirstSuccessfulFunc(h) == [fn |-> "firstSuccessful", h |-> h]

NvidiaKind == <<"nvidia.com/gpu">>

(***************************************************************************)
(* The mutators.  Each returns [s, err, trace, dev]: the specification     *)
(* after the call, the error returned, the updateSpec functions it invoked *)
(* (with the instance each was given and what each returned), in order,    *)
(* and the device instance it was given as the call left it.               *)
(* env holds what a call reads from outside its arguments: the search      *)
(* path, the registry, and whether the CDI registry resolves the devices.  *)
(***************************************************************************)
RECURSIVE updateSpec(_, _, _, _)

\* one invocation of an updateSpec function: who called it, the function,
\* the instance and the specification it was given, and what it left
Invocation(by, f, d, s, r) ==
  [by |-> by, fn |-> f, dev |-> d, dev1 |-> r.dev, s0 |-> s, s1 |-> r.s, err |-> r.err]

\* the nvidia hook appended to Hooks.Prestart
NvidiaHook(path) ==
  [Path |-> path,
   Args |-> <<nvidiaContainerRuntimeHookExecutableName, "prestart">>,
   Env |-> osEnviron]

AppendEnvIfAbsent(s, e) ==
  IF \E k \in 1..Len(s.Process.Env) : s.Process.Env[k] = e
  THEN s
  ELSE [s EXCEPT !.Process.Env = Append(@, e)]

AppendEnvOverwrites(s, e) == [s EXCEPT !.Process.Env = <<e>>]

AppendEnv(s, e) == [s EXCEPT !.Process.Env = Append(@, e)]

AppendPrestart(s, h) ==
  [s EXCEPT !.Hooks = [isNil |-> FALSE, Prestart |-> Append(@.Prestart, h)]]

\* setNvidiaGPUs with the order of its two environment entries and the
\* filter on the selected capabilities as parameters
setNvidiaGPUsVariant(s, d, env, capsFirst, keep) ==
  LET deviceIDs == getRequestedDevicesIDs(d.req)
      visible == <<"NVIDIA_VISIBLE_DEVICES=">> \o Join(deviceIDs, ",")
      nvidiaCaps == SelectSeq(d.selectedCaps, LAMBDA c : c \in keep)
      caps == IF Len(nvidiaCaps) > 0
              THEN << <<"NVIDIA_DRIVER_CAPABILITIES=">>
                      \o Join([k \in 1..Len(nvidiaCaps) |-> <<nvidiaCaps[k]>>], ",") >>
              ELSE <<>>
      entries == IF capsFirst THEN caps \o <<visible>> ELSE <<visible>> \o caps
      s2 == [s EXCEPT !.Process.Env = @ \o entries]
      lp == LookPath(nvidiaContainerRuntimeHookExecutableName, env.onPath)
  IN
  IF d.req.Count # 0 /\ Len(d.req.DeviceIDs) > 0
  THEN [s |-> s, err |-> errConflictCountDeviceIDs, trace |-> <<>>, dev |-> d]
  ELSE IF Len(deviceIDs) = 0 THEN [s |-> s, err |-> Nil, trace |-> <<>>, dev |-> d]
  ELSE IF lp.err # Nil THEN [s |-> s2, err |-> lp.err, trace |-> <<>>, dev |-> d]
  ELSE [s |-> AppendPrestart(s2, NvidiaHook(lp.path)), err |-> Nil, trace |-> <<>>, dev |-> d]

setNvidiaGPUsCapabilitiesFirst(s, d, env) ==
  setNvidiaGPUsVariant(s, d, env, TRUE, allNvidiaCaps)

setNvidiaGPUsAllSelectedCapabilities(s, d, env) ==
  setNvidiaGPUsVariant(s, d, env, FALSE, allNvidiaCaps \cup {"gpu", "nvidia"})

setNvidiaGPUsLookPathFirst(s, d, env) ==
  LET lp == LookPath(nvidiaContainerRuntimeHookExecutableName, env.onPath)
      deviceIDs == getRequestedDevicesIDs(d.req)
  IN
  IF d.req.Count # 0 /\ Len(d.req.DeviceIDs) > 0
  THEN [s |-> s, err |-> errConflictCountDeviceIDs, trace |-> <<>>, dev |-> d]
  ELSE IF lp.err # Nil THEN [s |-> s, err |-> lp.err, trace |-> <<>>, dev |-> d]
  ELSE IF Len(deviceIDs) = 0 THEN [s |-> s, err |-> Nil, trace |-> <<>>, dev |-> d]
  ELSE [s |-> AppendPrestart(
                AppendEnv(s, <<"NVIDIA_VISIBLE_DEVICES=">> \o Join(deviceIDs, ",")),
                NvidiaHook(lp.path)),
        err |-> Nil, trace |-> <<>>, dev |-> d]

\* setNvidiaGPUs handles requests for NVIDIA GPUs.
setNvidiaGPUs(s, d, env) ==
  LET req == d.req IN
  IF req.Count # 0 /\ Len(req.DeviceIDs) > 0
  THEN [s |-> s, err |-> errConflictCountDeviceIDs, trace |-> <<>>, dev |-> d]
  ELSE
    LET deviceIDs == getRequestedDevicesIDs(req) IN
    IF Len(deviceIDs) = 0 THEN [s |-> s, err |-> Nil, trace |-> <<>>, dev |-> d]
    ELSE
      LET s1 == AppendEnv(s, <<"NVIDIA_VISIBLE_DEVICES=">> \o Join(deviceIDs, ","))
          nvidiaCaps == SelectSeq(d.selectedCaps, LAMBDA c : c \in allNvidiaCaps)
          s2 == IF Len(nvidiaCaps) > 0
                THEN AppendEnv(s1, <<"NVIDIA_DRIVER_CAPABILITIES=">>
                                   \o Join([k \in 1..Len(nvidiaCaps) |-> <<nvidiaCaps[k]>>], ","))
                ELSE s1
          lp == LookPath(nvidiaContainerRuntimeHookExecutableName, env.onPath)
      IN IF lp.err # Nil
         THEN [s |-> s2, err |-> lp.err, trace |-> <<>>, dev |-> d]
         ELSE [s |-> AppendPrestart(s2, NvidiaHook(lp.path)), err |-> Nil, trace |-> <<>>, dev |-> d]

\* the "cdi" driver's updateSpec: adds the named CDI devices to the
\* specification, or fails when the CDI registry cannot resolve them
injectCDIDevices(s, d, env) ==
  IF env.cdiOK
  THEN [s |-> [s EXCEPT !.CDIDevices = @ \o d.req.DeviceIDs], err |-> Nil, trace |-> <<>>, dev |-> d]
  ELSE [s |-> s, err |-> [kind |-> "CDI device injection failed"], trace |-> <<>>, dev |-> d]

injectDevicesIgnoresMissingDriver(i, s, d, env) ==
  LET ids == getRequestedDevicesIDs(d.req)
      cdiDeviceIDs == [k \in 1..Len(ids) |-> normalizeDeviceID(i, ids[k])]
  IN
  IF Len(cdiDeviceIDs) = 0 \/ "cdi" \notin DOMAIN env.deviceDrivers
  THEN [s |-> s, err |-> Nil, trace |-> <<>>, dev |-> d]
  ELSE
    LET cdiDeviceInstance ==
          [req |-> [d.req EXCEPT !.Count = 0, !.Options = NilMap,
                                 !.DeviceIDs = cdiDeviceIDs],
           selectedCaps |-> <<>>]
        f == env.deviceDrivers["cdi"].updateSpec
        r == updateSpec(f, s, cdiDeviceInstance, env)
    IN [s |-> r.s, err |-> r.err,
        trace |-> <<Invocation("injectDevices", f, cdiDeviceInstance, s, r)>> \o r.trace, dev |-> d]

injectDevicesInPlace(i, s, d, env) ==
  LET ids == getRequestedDevicesIDs(d.req)
      cdiDeviceIDs == [k \in 1..Len(ids) |-> normalizeDeviceID(i, ids[k])]
  IN
  IF Len(cdiDeviceIDs) = 0 THEN [s |-> s, err |-> Nil, trace |-> <<>>, dev |-> d]
  ELSE IF "cdi" \notin DOMAIN env.deviceDrivers
  THEN [s |-> s,
        err |-> noCDIDriverError(incompatibleDeviceRequest(d.req.Driver, d.req.Capabilities)),
        trace |-> <<>>, dev |-> d]
  ELSE
    LET cdiDeviceInstance ==
          [req |-> [d.req EXCEPT !.Count = 0, !.Options = NilMap,
                                 !.DeviceIDs = cdiDeviceIDs],
           selectedCaps |-> <<>>]
        f == env.deviceDrivers["cdi"].updateSpec
        r == updateSpec(f, s, cdiDeviceInstance, env)
    IN [s |-> r.s, err |-> r.err,
        trace |-> <<Invocation("injectDevices", f, cdiDeviceInstance, s, r)>> \o r.trace,
        dev |-> r.dev]

injectDevicesUnqualified(i, s, d, env) ==
  LET cdiDeviceIDs == getRequestedDevicesIDs(d.req) IN
  IF Len(cdiDeviceIDs) = 0 THEN [s |-> s, err |-> Nil, trace |-> <<>>, dev |-> d]
  ELSE IF "cdi" \notin DOMAIN env.deviceDrivers
  THEN [s |-> s,
        err |-> noCDIDriverError(incompatibleDeviceRequest(d.req.Driver, d.req.Capabilities)),
        trace |-> <<>>, dev |-> d]
  ELSE
    LET cdiDeviceInstance ==
          [req |-> [d.req EXCEPT !.Count = 0, !.Options = NilMap,
                                 !.DeviceIDs = cdiDeviceIDs],
           selectedCaps |-> <<>>]
        f == env.deviceDrivers["cdi"].updateSpec
        r == updateSpec(f, s, cdiDeviceInstance, env)
    IN [s |-> r.s, err |-> r.err,
        trace |-> <<Invocation("injectDevices", f, cdiDeviceInstance, s, r)>> \o r.trace, dev |-> d]

injectDevicesForwardsRequest(i, s, d, env) ==
  LET ids == getRequestedDevicesIDs(d.req)
      cdiDeviceIDs == [k \in 1..Len(ids) |-> normalizeDeviceID(i, ids[k])]
  IN
  IF Len(cdiDeviceIDs) = 0 THEN [s |-> s, err |-> Nil, trace |-> <<>>, dev |-> d]
  ELSE IF "cdi" \notin DOMAIN env.deviceDrivers
  THEN [s |-> s,
        err |-> noCDIDriverError(incompatibleDeviceRequest(d.req.Driver, d.req.Capabilities)),
        trace |-> <<>>, dev |-> d]
  ELSE
    LET cdiDeviceInstance ==
          [req |-> [d.req EXCEPT !.DeviceIDs = cdiDeviceIDs],
           selectedCaps |-> d.selectedCaps]
        f == env.deviceDrivers["cdi"].updateSpec
        r == updateSpec(f, s, cdiDeviceInstance, env)
    IN [s |-> r.s, err |-> r.err,
        trace |-> <<Invocation("injectDevices", f, cdiDeviceInstance, s, r)>> \o r.trace, dev |-> d]

\* injectDevices converts an incoming device request to a request for devices
\* using CDI.
injectDevices(i, s, d, env) ==
  LET ids == getRequestedDevicesIDs(d.req)
      cdiDeviceIDs == [k \in 1..Len(ids) |-> normalizeDeviceID(i, ids[k])]
  IN
  IF Len(cdiDeviceIDs) = 0 THEN [s |-> s, err |-> Nil, trace |-> <<>>, dev |-> d]
  ELSE IF "cdi" \notin DOMAIN env.deviceDrivers
  THEN [s |-> s,
        err |-> noCDIDriverError(incompatibleDeviceRequest(d.req.Driver, d.req.Capabilities)),
        trace |-> <<>>, dev |-> d]
  ELSE
    LET cdiRequest == [d.req EXCEPT !.Count = 0, !.Options = NilMap,
                                    !.DeviceIDs = cdiDeviceIDs]
        cdiDeviceInstance == [req |-> cdiRequest, selectedCaps |-> <<>>]
        f == env.deviceDrivers["cdi"].updateSpec
        r == updateSpec(f, s, cdiDeviceInstance, env)
    IN [s |-> r.s, err |-> r.err,
        trace |-> <<Invocation("injectDevices", f, cdiDeviceInstance, s, r)>> \o r.trace, dev |-> d]

RECURSIVE firstSuccessfulFromNoReturn(_, _, _, _, _, _, _)
firstSuccessfulFromNoReturn(h, k, s, d, env, errs, trace) ==
  IF k > Len(h) THEN [s |-> s, err |-> errs, trace |-> trace, dev |-> d]
  ELSE IF h[k] = NilFunc THEN firstSuccessfulFromNoReturn(h, k + 1, s, d, env, errs, trace)
  ELSE
    LET r == updateSpec(h[k], s, d, env)
        tr == trace \o <<Invocation("firstSuccessful", h[k], d, s, r)>> \o r.trace
    IN firstSuccessfulFromNoReturn(h, k + 1, r.s, r.dev, env, errorsJoin(errs, r.err), tr)

\* the loop of firstSuccessful from handler k on, errs and trace so far
RECURSIVE firstSuccessfulFrom(_, _, _, _, _, _, _)
firstSuccessfulFrom(h, k, s, d, env, errs, trace) ==
  IF k > Len(h) THEN [s |-> s, err |-> errs, trace |-> trace, dev |-> d]
  ELSE IF h[k] = NilFunc THEN firstSuccessfulFrom(h, k + 1, s, d, env, errs, trace)
  ELSE
    LET r == updateSpec(h[k], s, d, env)
        tr == trace \o <<Invocation("firstSuccessful", h[k], d, s, r)>> \o r.trace
    IN IF r.err # Nil
       THEN firstSuccessfulFrom(h, k + 1, r.s, r.dev, env, errorsJoin(errs, r.err), tr)
       ELSE [s |-> r.s, err |-> Nil, trace |-> tr, dev |-> r.dev]

firstSuccessfulFirstOnly(h, s, d, env) ==
  LET present == SelectSeq(h, LAMBDA f : f # NilFunc) IN
  IF Len(present) = 0 THEN [s |-> s, err |-> Nil, trace |-> <<>>, dev |-> d]
  ELSE LET r == updateSpec(present[1], s, d, env)
       IN [s |-> r.s, err |-> r.err,
           trace |-> <<Invocation("firstSuccessful", present[1], d, s, r)>> \o r.trace,
           dev |-> r.dev]

firstSuccessfulNothingAppliedFails(h, s, d, env) ==
  LET r == firstSuccessfulFrom(h, 1, s, d, env, Nil, <<>>) IN
  IF Len(r.trace) = 0 THEN [r EXCEPT !.err = [kind |-> "no spec updater applied"]] ELSE r

\* firstSuccessful attempts to apply the list of spec updaters and returns on
\* the first successful update.
firstSuccessful(h, s, d, env) == firstSuccessfulFrom(h, 1, s, d, env, Nil, <<>>)

\* the "amd" driver's updateSpec: the requested devices are made visible
\* through the environment of the container process
setAMDGPUs(s, d, env) ==
  LET deviceIDs == getRequestedDevicesIDs(d.req) IN
  IF d.req.Count # 0 /\ Len(d.req.DeviceIDs) > 0
  THEN [s |-> s, err |-> errConflictCountDeviceIDs, trace |-> <<>>, dev |-> d]
  ELSE IF Len(deviceIDs) = 0 THEN [s |-> s, err |-> Nil, trace |-> <<>>, dev |-> d]
  ELSE [s |-> AppendEnv(s, <<"AMD_VISIBLE_DEVICES=">> \o Join(deviceIDs, ",")),
        err |-> Nil, trace |-> <<>>, dev |-> d]

\* calling a value of type func(*specs.Spec, *deviceInstance) error
updateSpec(f, s, d, env) ==
  CASE f.fn = "setNvidiaGPUs" -> setNvidiaGPUs(s, d, env)
    [] f.fn = "setAMDGPUs" -> setAMDGPUs(s, d, env)
    [] f.fn = "injectDevices" -> injectDevices(f.i, s, d, env)
    [] f.fn = "injectCDIDevices" -> injectCDIDevices(s, d, env)
    [] f.fn = "firstSuccessful" -> firstSuccessful(f.h, s, d, env)

(***************************************************************************)
(* Host probing and the driver registry                                    *)
(***************************************************************************)
NilCapset == [isNil |-> TRUE, labels |-> {}]
Capset(labels) == [isNil |-> FALSE, labels |-> labels]

\* deviceDrivers[name] = d
registerDeviceDriver(reg, name, d) == (name :> d) @@ reg

\* getNVIDIADeviceDrivers with the order of the composite, the capability set
\* of the dedicated drivers and the early return as parameters
nvidiaDeviceDriversVariant(path, order, dedicated, returnWhenNone) ==
  LET has == {e \in {nvidiaContainerRuntimeHookExecutableName, nvidiaCDIHookExecutableName} :
                LookPath(e, path).err = Nil}
      hook == IF nvidiaContainerRuntimeHookExecutableName \in has
              THEN "nvidia.runtime-hook" :> [capset |-> dedicated, updateSpec |-> SetNvidiaGPUsFunc]
              ELSE <<>>
      cdi == IF nvidiaCDIHookExecutableName \in has
             THEN "nvidia.cdi" :> [capset |-> dedicated, updateSpec |-> InjectDevicesFunc(NvidiaKind)]
             ELSE <<>>
      nvidiaDrivers == cdi @@ hook
      present == SelectSeq(order, LAMBDA n : n \in DOMAIN nvidiaDrivers)
      composite == [k \in 1..Len(present) |-> nvidiaDrivers[present[k]].updateSpec]
  IN IF has = {} /\ returnWhenNone THEN <<>>
     ELSE ("nvidia" :> [capset |-> Capset({"gpu", "nvidia"} \cup allNvidiaCaps),
                        updateSpec |-> FirstSuccessfulFunc(composite)])
          @@ nvidiaDrivers

getNVIDIADeviceDriversEmptyComposite(path) ==
  nvidiaDeviceDriversVariant(path, <<>>, NilCapset, TRUE)

getNVIDIADeviceDriversHookFirst(path) ==
  nvidiaDeviceDriversVariant(path, <<"nvidia.runtime-hook", "nvidia.cdi">>, NilCapset, TRUE)

getNVIDIADeviceDriversAdvertisesDedicated(path) ==
  nvidiaDeviceDriversVariant(path, <<"nvidia.cdi", "nvidia.runtime-hook">>,
                             Capset({"gpu", "nvidia"} \cup allNvidiaCaps), TRUE)

getNVIDIADeviceDriversWithoutExecutables(path) ==
  nvidiaDeviceDriversVariant(path, <<"nvidia.cdi", "nvidia.runtime-hook">>, NilCapset, FALSE)

getNVIDIADeviceDrivers(path) ==
  LET hasNVIDIAExecutables ==
        {e \in {nvidiaContainerRuntimeHookExecutableName, nvidiaCDIHookExecutableName} :
           LookPath(e, path).err = Nil}
      hook == IF nvidiaContainerRuntimeHookExecutableName \in hasNVIDIAExecutables
              THEN "nvidia.runtime-hook" :> [capset |-> NilCapset, updateSpec |-> SetNvidiaGPUsFunc]
              ELSE <<>>
      cdi == IF nvidiaCDIHookExecutableName \in hasNVIDIAExecutables
             THEN "nvidia.cdi" :> [capset |-> NilCapset, updateSpec |-> InjectDevicesFunc(NvidiaKind)]
             ELSE <<>>
      nvidiaDrivers == cdi @@ hook
      order == <<"nvidia.cdi", "nvidia.runtime-hook">>
      present == SelectSeq(order, LAMBDA n : n \in DOMAIN nvidiaDrivers
                                             /\ nvidiaDrivers[n].updateSpec # NilFunc)
      composite == [k \in 1..Len(present) |-> nvidiaDrivers[present[k]].updateSpec]
      capset == Capset({"gpu", "nvidia"} \cup allNvidiaCaps)
  IN IF hasNVIDIAExecutables = {} THEN <<>>
     ELSE ("nvidia" :> [capset |-> capset, updateSpec |-> FirstSuccessfulFunc(composite)])
          @@ nvidiaDrivers

\* for name, driver := range drivers { registerDeviceDriver(name, driver) }
RECURSIVE registerAll(_, _)
registerAll(reg, drivers) ==
  IF DOMAIN drivers = {} THEN reg
  ELSE LET name == CHOOSE n \in DOMAIN drivers : TRUE
           rest == [n \in DOMAIN drivers \ {name} |-> drivers[n]]
       IN registerAll(registerDeviceDriver(reg, name, drivers[name]), rest)

probeEveryVendor(reg, path) ==
  LET nvidia == registerAll(reg, getNVIDIADeviceDrivers(path)) IN
  IF LookPath(amdContainerRuntimeExecutableName, path).err = Nil
  THEN registerDeviceDriver(nvidia, "amd",
         [capset |-> Capset({"gpu", "amd"}), updateSpec |-> SetAMDGPUsFunc])
  ELSE nvidia

\* func init(): what the registry holds after probing a host with search path path
probe(reg, path) ==
  LET nvidiaDrivers == getNVIDIADeviceDrivers(path) IN
  IF Cardinality(DOMAIN nvidiaDrivers) > 0 THEN registerAll(reg, nvidiaDrivers)
  ELSE IF LookPath(amdContainerRuntimeExecutableName, path).err = Nil
  THEN registerDeviceDriver(reg, "amd",
         [capset |-> Capset({"gpu", "amd"}), updateSpec |-> SetAMDGPUsFunc])
  ELSE reg

(***************************************************************************)
(* Resolution of a device request against the registry                     *)
(***************************************************************************)
\* the capability labels a request asks for, in the order it lists them
RECURSIVE requestedLabels(_)
requestedLabels(caps) ==
  IF Len(caps) = 0 THEN <<>> ELSE caps[1] \o requestedLabels(Tail(caps))

\* the drivers that are candidates for a request: the driver it names, or,
\* when it names none, every driver whose capability set is non-nil and
\* holds one of the requested labels
candidates(reg, req) ==
  IF req.Driver # "" THEN {n \in DOMAIN reg : n = req.Driver}
  ELSE {n \in DOMAIN reg :
          /\ ~reg[n].capset.isNil
          /\ \E k \in 1..Len(requestedLabels(req.Capabilities)) :
               requestedLabels(req.Capabilities)[k] \in reg[n].capset.labels}

\* the requested labels the driver recognizes
selectedCapabilities(driver, req) ==
  SelectSeq(requestedLabels(req.Capabilities),
            LAMBDA c : ~driver.capset.isNil /\ c \in driver.capset.labels)

\* handleDevice with the driver name chosen among the candidates: the device
\* instance is created and the driver's updateSpec is invoked on it
handleDeviceWith(name, s, req, env) ==
  LET d == [req |-> req, selectedCaps |-> selectedCapabilities(env.deviceDrivers[name], req)]
      f == env.deviceDrivers[name].updateSpec
      r == updateSpec(f, s, d, env)
  IN [s |-> r.s, err |-> r.err,
      trace |-> <<Invocation("handleDevice", f, d, s, r)>> \o r.trace,
      dev |-> r.dev]

(***************************************************************************)
(* Inputs                                                                  *)
(***************************************************************************)
ID0 == <<"0">>
ID1 == <<"1">>
IDQualified == <<"vendor/class", "=", "7">>
IDTwoSeparators == <<"a", "=", "b", "=", "c">>
IDAll == <<"a", "l", "l">>

Request(driver, count, ids, caps, opts) ==
  [Driver |-> driver, Count |-> count, DeviceIDs |-> ids, Capabilities |-> caps,
   Options |-> opts]

\* (Count, DeviceIDs) of the requests given to the mutators
RequestShapes ==
  { <<0, <<>> >>, <<2, <<>> >>, <<-1, <<>> >>,
    <<0, <<ID0, ID1>> >>, <<0, <<IDQualified, IDTwoSeparators>> >>,
    <<2, <<ID0, ID1>> >>, <<-1, <<IDQualified>> >> }

\* the device instances given to the mutators
Devs ==
  { [req |-> Request("", sh[1], sh[2], << <<"gpu">> >>, NilMap),
     selectedCaps |-> <<"gpu">>] : sh \in RequestShapes }
  \cup
  { [req |-> Request("nvidia", sh[1], sh[2], << <<"gpu", "compute">>, <<"utility">> >>,
                     [isNil |-> FALSE, kv |-> {<<"k", "v">>}]),
     selectedCaps |-> <<"gpu", "utility", "compute">>] : sh \in RequestShapes }
  \cup
  { [req |-> Request("nvidia.runtime-hook", 0, <<ID0, ID1>>, << <<"compute">> >>, NilMap),
     selectedCaps |-> <<"compute">>],
    [req |-> Request("nvidia.cdi", 2, <<>>, << <<"gpu">> >>, NilMap),
     selectedCaps |-> <<>>] }

\* the lists of spec updaters firstSuccessful is applied to
Composites ==
  LET S == SetNvidiaGPUsFunc
      I == InjectDevicesFunc(NvidiaKind)
  IN { <<>>, <<NilFunc, NilFunc>>, <<I, S>>, <<S, I>>, <<NilFunc, I, NilFunc, S>> }

NoCall == [op |-> "none"]
NoFn == [name |-> "none"]

(***************************************************************************)
(* The state machine                                                       *)
(***************************************************************************)
Init ==
  /\ phase = "boot"
  /\ onPath \in SUBSET Executables
  /\ probedPath = {}
  /\ deviceDrivers = <<>>
  /\ dev \in Devs
  /\ spec = EmptySpec
  /\ ncalls = 0
  /\ last = NoCall
  /\ fn = NoFn

\* func init() of the package: host probing
init ==
  /\ phase = "boot"
  /\ phase' = "probed"
  /\ deviceDrivers' = probe(deviceDrivers, onPath)
  /\ probedPath' = onPath
  /\ UNCHANGED <<onPath, dev, spec, ncalls, last, fn>>

\* daemon start: the "cdi" driver is registered when CDI is enabled, and the
\* hook runner may have been installed or removed since the package was
\* initialised
RegisterCDIDriver ==
  /\ phase = "probed"
  /\ phase' = "ready"
  /\ \E enabled \in BOOLEAN :
       deviceDrivers' =
         IF enabled
         THEN registerDeviceDriver(deviceDrivers, "cdi",
                [capset |-> NilCapset, updateSpec |-> InjectCDIDevicesFunc])
         ELSE deviceDrivers
  /\ \E hookNow \in BOOLEAN :
       onPath' = IF hookNow
                 THEN onPath \cup {nvidiaContainerRuntimeHookExecutableName}
                 ELSE onPath \ {nvidiaContainerRuntimeHookExecutableName}
  /\ UNCHANGED <<probedPath, dev, spec, ncalls, last, fn>>

Env(cdiOK) == [onPath |-> onPath, deviceDrivers |-> deviceDrivers, cdiOK |-> cdiOK]

CalledRegistersCDIOnUse(op, h, r) ==
  /\ spec' = r.s
  /\ ncalls' = ncalls + 1
  /\ last' = [op |-> op, h |-> h, before |-> spec, err |-> r.err, trace |-> r.trace]
  /\ deviceDrivers' =
       IF r.err # Nil /\ r.err.kind = "no CDI device driver registered"
       THEN registerDeviceDriver(deviceDrivers, "cdi",
              [capset |-> NilCapset, updateSpec |-> InjectCDIDevicesFunc])
       ELSE deviceDrivers
  /\ dev' = r.dev
  /\ UNCHANGED <<phase, onPath, probedPath, fn>>

Called(op, h, r) ==
  /\ spec' = r.s
  /\ ncalls' = ncalls + 1
  /\ last' = [op |-> op, h |-> h, before |-> spec, err |-> r.err, trace |-> r.trace]
  /\ dev' = r.dev
  /\ UNCHANGED <<phase, onPath, probedPath, deviceDrivers, fn>>

CallSetNvidiaGPUs ==
  /\ phase = "ready" /\ ncalls < MaxCalls
  /\ \E cdiOK \in BOOLEAN :
       Called("setNvidiaGPUs", <<>>, setNvidiaGPUs(spec, dev, Env(cdiOK)))

CallInjectDevices ==
  /\ phase = "ready" /\ ncalls < MaxCalls
  /\ \E cdiOK \in BOOLEAN :
       Called("injectDevices", <<>>,
              injectDevices([defaultCDIDeviceKind |-> NvidiaKind], spec, dev, Env(cdiOK)))

CallFirstSuccessful ==
  /\ phase = "ready" /\ ncalls < MaxCalls
  /\ \E h \in Composites, cdiOK \in BOOLEAN :
       Called("firstSuccessful", h, firstSuccessful(h, spec, dev, Env(cdiOK)))

\* handleDevice: the request is resolved to a driver of the registry (the
\* registry is a map, so any candidate may be the one found) and that
\* driver's updateSpec is applied; without a candidate the request fails.
\* The caller's request is the one the device instance holds.
HandleDevice ==
  /\ phase = "ready" /\ ncalls < MaxCalls
  /\ \E cdiOK \in BOOLEAN :
       IF candidates(deviceDrivers, dev.req) = {}
       THEN Called("handleDevice", <<>>,
                   [s |-> spec,
                    err |-> incompatibleDeviceRequest(dev.req.Driver, dev.req.Capabilities),
                    trace |-> <<>>, dev |-> dev])
       ELSE \E name \in candidates(deviceDrivers, dev.req) :
              LET r == handleDeviceWith(name, spec, dev.req, Env(cdiOK))
              IN Called("handleDevice", <<>>, [r EXCEPT !.dev = [dev EXCEPT !.req = r.dev.req]])

Next ==
  \/ init
  \/ RegisterCDIDriver
  \/ CallSetNvidiaGPUs
  \/ CallInjectDevices
  \/ CallFirstSuccessful
  \/ HandleDevice

Spec == Init /\ [][Next]_vars

(***************************************************************************)
(* The pure functions on their own: each action applies one of them to an  *)
(* input and records input and result in fn.                               *)
(***************************************************************************)
FnDeviceIDLists ==
  { <<>>, <<ID0>>, <<ID0, ID1>>, <<IDQualified>>, <<IDQualified, IDTwoSeparators>>,
    <<IDAll, ID1>> }

FnRequests ==
  { Request("", c, ids, << <<"gpu">> >>, NilMap) :
      c \in (-2)..MaxCount, ids \in FnDeviceIDLists }

FnDeviceIDs ==
  { <<>>, ID0, IDAll, IDQualified, IDTwoSeparators, <<"=">>, <<"=", "7">>, <<"k", "=">>,
    <<"=", "=">>, <<"G", "P", "U", "-", "0">> }

FnKinds == { NvidiaKind, <<"amd.com/gpu">> }

InitFn ==
  /\ phase = "boot"
  /\ onPath = {}
  /\ probedPath = {}
  /\ deviceDrivers = <<>>
  /\ dev = [req |-> Request("", 0, <<>>, <<>>, NilMap), selectedCaps |-> <<>>]
  /\ spec = EmptySpec
  /\ ncalls = 0
  /\ last = NoCall
  /\ fn = NoFn

CallGetRequestedDevicesIDs ==
  /\ \E req \in FnRequests :
       fn' = [name |-> "getRequestedDevicesIDs", req |-> req,
              ret |-> getRequestedDevicesIDs(req)]
  /\ UNCHANGED <<phase, onPath, probedPath, deviceDrivers, dev, spec, ncalls, last>>

CallCountToDevices ==
  /\ \E count \in 0..MaxCount :
       fn' = [name |-> "countToDevices", count |-> count, ret |-> countToDevices(count)]
  /\ UNCHANGED <<phase, onPath, probedPath, deviceDrivers, dev, spec, ncalls, last>>

CallNormalizeDeviceID ==
  /\ \E kind \in FnKinds, deviceID \in FnDeviceIDs :
       fn' = [name |-> "normalizeDeviceID", kind |-> kind, deviceID |-> deviceID,
              ret |-> normalizeDeviceID([defaultCDIDeviceKind |-> kind], deviceID)]
  /\ UNCHANGED <<phase, onPath, probedPath, deviceDrivers, dev, spec, ncalls, last>>

NextFn ==
  \/ CallGetRequestedDevicesIDs
  \/ CallCountToDevices
  \/ CallNormalizeDeviceID

SpecFn == InitFn /\ [][NextFn]_vars

(***************************************************************************)
(* responseHookTransport of the client.  A response is [id, seen, closes]: *)
(* which response it is, the hooks that were invoked on it, in order, and  *)
(* how often its body was closed.  RoundTrip returns [resp, err] and, for  *)
(* the claims, obj: the base transport's response as the call left it,     *)
(* and base: the base transport as the call left it.                       *)
(***************************************************************************)
MaxHooks == 3

\* a base transport: what it returns for the request, and how often its
\* RoundTrip was called
Base(result) == [result |-> result, calls |-> 0]

\* t.base.RoundTrip(req)
baseRoundTrip(base) ==
  [resp |-> base.result.resp, err |-> base.result.err,
   base |-> [base EXCEPT !.calls = @ + 1]]

NilResponse == [isNil |-> TRUE]
Response(id) == [isNil |-> FALSE, id |-> id, seen |-> <<>>, closes |-> 0]

\* the hooks: nil, one that succeeds, one that fails; a hook is told apart by
\* its place in the list
NilHook == [isNil |-> TRUE]
Hook(id, err) == [isNil |-> FALSE, id |-> id, err |-> err]
HookError(id) == [kind |-> "hook failed", id |-> id]

\* h(resp): the hook is invoked on the response
invokeHook(h, resp) == [resp |-> [resp EXCEPT !.seen = Append(@, h.id)], err |-> h.err]

\* resp.Body.Close()
BodyClose(resp) == [resp EXCEPT !.closes = @ + 1]

\* the loop over t.hooks from hook k on
RECURSIVE roundTripHooksWithoutClose(_, _, _)
roundTripHooksWithoutClose(hooks, k, resp) ==
  IF k > Len(hooks) THEN [resp |-> resp, err |-> Nil, obj |-> resp]
  ELSE IF hooks[k].isNil THEN roundTripHooksWithoutClose(hooks, k + 1, resp)
  ELSE LET r == invokeHook(hooks[k], resp)
       IN IF r.err # Nil
          THEN [resp |-> NilResponse, err |-> r.err, obj |-> r.resp]
          ELSE roundTripHooksWithoutClose(hooks, k + 1, r.resp)

RECURSIVE roundTripHooks(_, _, _)
roundTripHooks(hooks, k, resp) ==
  IF k > Len(hooks) THEN [resp |-> resp, err |-> Nil, obj |-> resp]
  ELSE IF hooks[k].isNil THEN roundTripHooks(hooks, k + 1, resp)
  ELSE LET r == invokeHook(hooks[k], resp)
       IN IF r.err # Nil
          THEN [resp |-> NilResponse, err |-> r.err, obj |-> BodyClose(r.resp)]
          ELSE roundTripHooks(hooks, k + 1, r.resp)

\* func (t *responseHookTransport) RoundTrip: t.base is what the base
\* transport returns for the request
RoundTrip(t) ==
  LET b == baseRoundTrip(t.base) IN
  IF b.err # Nil
  THEN [resp |-> NilResponse, err |-> b.err, obj |-> b.resp, base |-> b.base]
  ELSE roundTripHooks(t.hooks, 1, b.resp) @@ [base |-> b.base]

\* what a base transport returns: a response, an error, or (against the
\* contract of http.RoundTripper) both
BaseResults ==
  { [resp |-> Response("base"), err |-> Nil],
    [resp |-> NilResponse, err |-> [kind |-> "base failed"]],
    [resp |-> Response("base"), err |-> [kind |-> "base failed"]] }

HookLists ==
  UNION { [1..n -> {"nil", "ok", "fail"}] : n \in 0..MaxHooks }

Hooks(kinds) ==
  [k \in 1..Len(kinds) |->
     CASE kinds[k] = "nil" -> NilHook
       [] kinds[k] = "ok" -> Hook(k, Nil)
       [] kinds[k] = "fail" -> Hook(k, HookError(k))]

CallRoundTrip ==
  /\ \E base \in BaseResults, kinds \in HookLists :
       LET t == [base |-> Base(base), hooks |-> Hooks(kinds)]
       IN fn' = [name |-> "RoundTrip", t |-> t, ret |-> RoundTrip(t)]
  /\ UNCHANGED <<phase, onPath, probedPath, deviceDrivers, dev, spec, ncalls, last>>

NextRoundTrip == CallRoundTrip

SpecRoundTrip == InitFn /\ [][NextRoundTrip]_vars

(***************************************************************************)
(* Properties of the pure functions (checked under SpecFn)                 *)
(***************************************************************************)
\* strconv.Atoi on a string of decimal digits; -1 if it is not one
RECURSIVE DecimalValue(_)
DecimalValue(s) ==
  IF Len(s) = 0 \/ \E k \in 1..Len(s) : s[k] \notin {Digits[j] : j \in 1..10} THEN -1
  ELSE LET d == (CHOOSE j \in 1..10 : Digits[j] = s[Len(s)]) - 1 IN
       IF Len(s) = 1 THEN d ELSE 10 * DecimalValue(SubSeq(s, 1, Len(s) - 1)) + d

\* s is the decimal representation of n, without sign or leading zeros
IsDecimalOf(s, n) == DecimalValue(s) = n /\ (Len(s) > 1 => s[1] # "0")

ResolvedRequest == fn.name = "getRequestedDevicesIDs"

\* C6 as stated: for every request with Count < 0 the resolved device
\* identifier list is the single-element list ["all"].
C6_NegativeCountResolvesToAll ==
  (ResolvedRequest /\ fn.req.Count < 0) => fn.ret = << <<"a", "l", "l">> >>

\* C6 amended: for every request with Count < 0 and no explicit DeviceIDs the
\* resolved device identifier list is the single-element list ["all"];
\* explicit DeviceIDs take precedence over the count.
C6_NegativeCountWithoutIDsResolvesToAll ==
  (ResolvedRequest /\ fn.req.Count < 0 /\ Len(fn.req.DeviceIDs) = 0)
    => fn.ret = << <<"a", "l", "l">> >>

C6_Witness ==
  /\ ResolvedRequest /\ fn.req.Count = -2 /\ Len(fn.req.DeviceIDs) = 0
  /\ Len(fn.ret) = 1

\* The list is "0", "1", ..., "N-1": N decimal identifiers in increasing order
CountsUpTo(ids, n) ==
  /\ Len(ids) = n
  /\ \A k \in 1..Len(ids) : IsDecimalOf(ids[k], k - 1)

\* C7 as stated: for every request with Count = N > 0 the resolved device
\* identifier list is ["0", "1", ..., "N-1"].
C7_PositiveCountResolvesToRange ==
  (ResolvedRequest /\ fn.req.Count > 0) => CountsUpTo(fn.ret, fn.req.Count)

\* C7 amended: for every request with Count = N > 0 and no explicit DeviceIDs
\* the resolved device identifier list is ["0", "1", ..., "N-1"]: exactly N
\* decimal identifiers, in increasing order, starting at 0.
C7_PositiveCountWithoutIDsResolvesToRange ==
  (ResolvedRequest /\ fn.req.Count > 0 /\ Len(fn.req.DeviceIDs) = 0)
    => CountsUpTo(fn.ret, fn.req.Count)

C7_Witness ==
  /\ ResolvedRequest /\ fn.req.Count = MaxCount /\ Len(fn.req.DeviceIDs) = 0
  /\ Len(fn.ret) = MaxCount /\ Len(fn.ret[MaxCount]) = 2

Normalized == fn.name = "normalizeDeviceID"

Prefixed(kind, deviceID) == kind \o <<"=">> \o deviceID

\* the two examples: "0" under "nvidia.com/gpu", and "vendor/class=7"
NormalizeExamples ==
  /\ (Normalized /\ fn.kind = <<"nvidia.com/gpu">> /\ fn.deviceID = <<"0">>)
       => fn.ret = <<"nvidia.com/gpu", "=", "0">>
  /\ (Normalized /\ fn.deviceID = <<"vendor/class", "=", "7">>)
       => fn.ret = <<"vendor/class", "=", "7">>

\* C9 as stated: normalizeDeviceID returns an identifier unchanged if and
\* only if it contains exactly one "="; every other identifier is returned as
\* defaultKind + "=" + identifier.
C9_UnchangedIffExactlyOneSeparator ==
  /\ Normalized =>
       IF Occurrences(fn.deviceID, "=") = 1
       THEN fn.ret = fn.deviceID
       ELSE fn.ret = Prefixed(fn.kind, fn.deviceID)
  /\ NormalizeExamples

\* C9 amended: normalizeDeviceID returns an identifier unchanged if and only
\* if it contains at least one "="; an identifier without "=" is returned as
\* defaultKind + "=" + identifier ("0" under "nvidia.com/gpu" yields
\* "nvidia.com/gpu=0", "vendor/class=7" is unchanged).
C9_UnchangedIffSomeSeparator ==
  /\ Normalized =>
       IF Occurrences(fn.deviceID, "=") >= 1
       THEN fn.ret = fn.deviceID
       ELSE fn.ret = Prefixed(fn.kind, fn.deviceID) /\ fn.ret # fn.deviceID
  /\ NormalizeExamples

C9_Witness ==
  /\ Normalized /\ Occurrences(fn.deviceID, "=") = 2
  /\ fn.ret = fn.deviceID

(***************************************************************************)
(* Properties of the mutators (checked under Spec)                         *)
(***************************************************************************)
Direct == last.op \in {"setNvidiaGPUs", "injectDevices"}
Dispatched == last.op = "firstSuccessful"

\* the invocations firstSuccessful itself made, in order
Top == SelectSeq(last.trace, LAMBDA e : e.by = "firstSuccessful")

\* the non-nil entries of the list firstSuccessful was given
NonNil == SelectSeq(last.h, LAMBDA f : f # NilFunc)

Conflicting(d) == d.req.Count # 0 /\ Len(d.req.DeviceIDs) > 0
NoDevices(d) == d.req.Count = 0 /\ Len(d.req.DeviceIDs) = 0
HookOnPath == nvidiaContainerRuntimeHookExecutableName \in onPath
CDIRegistered == "cdi" \in DOMAIN deviceDrivers

\* C1: for every request with Count != 0 and non-empty DeviceIDs, every
\* mutator (setNvidiaGPUs and injectDevices, called directly or through the
\* composite) returns the conflicting-request error and the specification is
\* what it was before the call.
C1_ConflictingRequestRejected ==
  ((Direct \/ Dispatched) /\ Conflicting(dev)) =>
    /\ spec = last.before
    /\ Direct => last.err = errConflictCountDeviceIDs
    /\ Dispatched => \A k \in 1..Len(Top) : Top[k].err = errConflictCountDeviceIDs

\* C2: composite dispatch over [A, B] where A fails and B succeeds reports
\* success and leaves the specification changed by exactly B's mutation:
\* nothing that A did before failing remains.
C2_FailedThenSuccessfulAppliesOnlySecond ==
  (Dispatched /\ Len(Top) = 2 /\ Top[1].err # Nil /\ Top[2].err = Nil) =>
    /\ last.err = Nil
    /\ Top[1].s1 = Top[1].s0
    /\ spec = updateSpec(Top[2].fn, last.before, dev, Env(TRUE)).s

\* C3: firstSuccessful invokes the non-nil functions in list order on the same
\* specification and device instance, each at most once, skips nil entries,
\* and after the first function that returns success it invokes no later
\* function and returns success.
C3_InOrderUntilFirstSuccess ==
  Dispatched =>
    /\ Len(Top) <= Len(NonNil)
    /\ \A k \in 1..Len(Top) :
         /\ Top[k].fn = NonNil[k]
         /\ Top[k].dev = dev
         /\ Top[k].s0 = IF k = 1 THEN last.before ELSE Top[k - 1].s1
    /\ \A k \in 1..(Len(Top) - 1) : Top[k].err # Nil
    /\ Len(Top) < Len(NonNil) => (Len(Top) > 0 /\ Top[Len(Top)].err = Nil)
    /\ (\E k \in 1..Len(Top) : Top[k].err = Nil) => last.err = Nil
    /\ Len(Top) > 0 => spec = Top[Len(Top)].s1

C3_Witness ==
  /\ Dispatched
  /\ last.h = <<NilFunc, InjectDevicesFunc(NvidiaKind), NilFunc, SetNvidiaGPUsFunc>>
  /\ Len(Top) = 1 /\ Top[1].err = Nil /\ last.err = Nil
  /\ spec # last.before

AllFailed == \A k \in 1..Len(Top) : Top[k].err # Nil

\* C4: when every non-nil function of a composite fails, firstSuccessful
\* returns a failure that contains the cause returned by each invoked
\* function, in invocation order, none dropped; it returns a failure only
\* when every non-nil function failed and at least one was invoked.
C4_FailureAggregatesEveryCause ==
  Dispatched =>
    /\ (Len(Top) > 0 /\ AllFailed) =>
         /\ last.err # Nil
         /\ Causes(last.err) = [k \in 1..Len(Top) |-> Top[k].err]
    /\ last.err # Nil => (Len(Top) > 0 /\ AllFailed /\ Len(Top) = Len(NonNil))

C4_Witness ==
  /\ Dispatched /\ Len(Top) = 2 /\ AllFailed
  /\ Top[1].err # Top[2].err
  /\ Len(Causes(last.err)) = 2

\* C5: firstSuccessful over an empty list, or over a list whose entries are
\* all nil, returns success and leaves the specification unchanged.
C5_NothingToApplySucceeds ==
  (Dispatched /\ Len(NonNil) = 0) =>
    /\ last.err = Nil
    /\ spec = last.before
    /\ Len(last.trace) = 0

C5_Witness ==
  /\ Dispatched /\ last.h = <<NilFunc, NilFunc>> /\ last.err = Nil
  /\ ~NoDevices(dev) /\ HookOnPath

\* C8: for every request with Count == 0 and empty DeviceIDs each mutator
\* reports success and performs no mutation, before its availability check:
\* setNvidiaGPUs succeeds even when the hook executable is not on the search
\* path, injectDevices even when no driver named "cdi" is registered.
C8_NoDevicesRequestedIsNoOp ==
  ((Direct \/ Dispatched) /\ NoDevices(dev)) =>
    /\ last.err = Nil
    /\ spec = last.before
    /\ Direct => Len(last.trace) = 0
    /\ Dispatched =>
         \A k \in 1..Len(last.trace) :
           /\ last.trace[k].by = "firstSuccessful"
           /\ last.trace[k].err = Nil
           /\ last.trace[k].s1 = last.trace[k].s0

C8_Witness ==
  /\ last.op = "setNvidiaGPUs" /\ NoDevices(dev)
  /\ ~HookOnPath /\ ~CDIRegistered
  /\ last.err = Nil /\ ncalls = 2

IsNoCDIDriverError(e, req) ==
  /\ e.kind = "no CDI device driver registered"
  /\ e.wrapped.kind = "incompatibleDeviceRequest"
  /\ e.wrapped.driver = req.Driver
  /\ e.wrapped.caps = req.Capabilities

\* C10: when the normalized device list is non-empty and the registry holds
\* no driver named "cdi", injectDevices fails with an incompatible-device-
\* request error carrying the original request's Driver and Capabilities,
\* invokes no other driver, and leaves the specification unchanged.
C10_MissingCDIDriverIsIncompatibleRequest ==
  (~CDIRegistered /\ (dev.req.Count # 0 \/ Len(dev.req.DeviceIDs) > 0)) =>
    /\ last.op = "injectDevices" =>
         /\ IsNoCDIDriverError(last.err, dev.req)
         /\ Len(last.trace) = 0
         /\ spec = last.before
    /\ Dispatched =>
         \A k \in 1..Len(last.trace) :
           /\ last.trace[k].by = "firstSuccessful"
           /\ last.trace[k].fn.fn = "injectDevices" =>
                /\ IsNoCDIDriverError(last.trace[k].err, dev.req)
                /\ last.trace[k].s1 = last.trace[k].s0

C10_Witness ==
  /\ last.op = "injectDevices" /\ ~CDIRegistered
  /\ dev.req.Driver = "nvidia" /\ dev.req.Count = 2 /\ Len(dev.req.DeviceIDs) = 0
  /\ last.err # Nil /\ last.err.wrapped.driver = "nvidia"

(***************************************************************************)
(* Delegation to the "cdi" driver, append-only mutation, the registry      *)
(***************************************************************************)
Resolved == last.op = "handleDevice"
AnyCall == Direct \/ Dispatched \/ Resolved

\* the invocations of the "cdi" driver made by injectDevices, in order
Delegations == SelectSeq(last.trace, LAMBDA e : e.by = "injectDevices")

RequestsDevices(d) == d.req.Count # 0 \/ Len(d.req.DeviceIDs) > 0

\* the identifiers of the request as CDI names under the nvidia kind
ExpectedCDINames(req) ==
  LET ids == IF Len(req.DeviceIDs) > 0 THEN req.DeviceIDs
             ELSE IF req.Count > 0 THEN [k \in 1..req.Count |-> Itoa(k - 1)]
             ELSE << <<"a", "l", "l">> >>
  IN [k \in 1..Len(ids) |->
        IF Occurrences(ids[k], "=") >= 1 THEN ids[k]
        ELSE <<"nvidia.com/gpu", "=">> \o ids[k]]

\* what C11 says of the delegation whatever it says of Capabilities
DelegatesOnce ==
  /\ Len(Delegations) <= 1
  /\ (last.op = "injectDevices" /\ CDIRegistered /\ RequestsDevices(dev))
       => Len(Delegations) = 1
  /\ \A k \in 1..Len(Delegations) :
       /\ Delegations[k].fn = deviceDrivers["cdi"].updateSpec
       /\ Delegations[k].dev.req.DeviceIDs = ExpectedCDINames(dev.req)
       /\ Delegations[k].dev.req.Count = 0
       /\ Delegations[k].dev.req.Options = NilMap
       /\ Delegations[k].dev.selectedCaps = <<>>
       /\ last.op = "injectDevices" =>
            (last.err = Delegations[k].err /\ spec = Delegations[k].s1)

\* C11 as stated: the instance injectDevices passes to the "cdi" driver has
\* the normalized identifiers in order, Count 0, Options cleared, and both
\* the request's Capabilities and the selected capabilities empty; the driver
\* is invoked exactly once and injectDevices returns its result.
C11_DelegatedInstanceHasNoCapabilities ==
  AnyCall =>
    /\ DelegatesOnce
    /\ \A k \in 1..Len(Delegations) : Len(Delegations[k].dev.req.Capabilities) = 0

\* C11 amended: the instance injectDevices passes to the "cdi" driver has the
\* normalized identifiers in order, Count 0, Options cleared and no selected
\* capabilities, while the request's Driver and Capabilities groups are
\* carried over unchanged; the driver is invoked exactly once and
\* injectDevices returns its result.
C11_DelegatedInstanceKeepsRequestedCapabilities ==
  AnyCall =>
    /\ DelegatesOnce
    /\ \A k \in 1..Len(Delegations) :
         /\ Delegations[k].dev.req.Capabilities = dev.req.Capabilities
         /\ Delegations[k].dev.req.Driver = dev.req.Driver

C11_Witness ==
  /\ last.op = "injectDevices" /\ Len(Delegations) = 1
  /\ dev.req.Count = 0 /\ Len(dev.req.DeviceIDs) = 2 /\ ~dev.req.Options.isNil
  /\ Len(dev.selectedCaps) > 0
  /\ Delegations[1].dev.req.DeviceIDs[1] = <<"nvidia.com/gpu", "=", "0">>
  /\ last.err = Nil

IsPrefix(a, b) == Len(a) <= Len(b) /\ SubSeq(b, 1, Len(a)) = a

\* the environment and the prestart hooks of s0 are kept, in place, in s1
OnlyAppended(s0, s1) ==
  /\ IsPrefix(s0.Process.Env, s1.Process.Env)
  /\ IsPrefix(s0.Hooks.Prestart, s1.Hooks.Prestart)

\* C12: after any sequence of mutator calls, successful or failed, the
\* process environment list and the prestart hook list each have their value
\* from before as a prefix: entries are only appended, never removed or
\* reordered.
C12_EnvAndHooksOnlyAppended ==
  AnyCall =>
    /\ OnlyAppended(last.before, spec)
    /\ \A k \in 1..Len(last.trace) : OnlyAppended(last.trace[k].s0, last.trace[k].s1)

C12_Witness ==
  /\ ncalls = 2 /\ Dispatched /\ last.err = Nil
  /\ Len(last.before.Process.Env) > 0 /\ Len(last.before.Hooks.Prestart) > 0
  /\ Len(spec.Process.Env) > Len(last.before.Process.Env)
  /\ Len(spec.Hooks.Prestart) > Len(last.before.Hooks.Prestart)

\* C13: no per-request operation (firstSuccessful, setNvidiaGPUs,
\* injectDevices with its "cdi" lookup, handleDevice) adds, overwrites or
\* removes a registry entry: once probing and driver registration are over,
\* every step leaves the registry as it was.
C13_RequestsLeaveRegistryAlone ==
  [][(phase = "ready" \/ ncalls' # ncalls) => deviceDrivers' = deviceDrivers]_vars

C13_Witness ==
  /\ ncalls = 2 /\ last.op = "injectDevices"
  /\ ~CDIRegistered /\ RequestsDevices(dev) /\ last.err # Nil
  /\ DOMAIN deviceDrivers = {"nvidia", "nvidia.cdi", "nvidia.runtime-hook"}

(***************************************************************************)
(* Properties of host probing                                              *)
(***************************************************************************)
Probed == phase # "boot"
Registered(name) == name \in DOMAIN deviceDrivers
HookProbed == "nvidia-container-runtime-hook" \in probedPath
CDIHookProbed == "nvidia-cdi-hook" \in probedPath
AMDProbed == "amd-container-runtime" \in probedPath
NvidiaNames == {"nvidia", "nvidia.cdi", "nvidia.runtime-hook"}
DedicatedNames == {"nvidia.cdi", "nvidia.runtime-hook"}

\* C14: probing registers the drivers of at most one vendor: for every
\* combination of present helper executables "amd" is registered if and only
\* if neither NVIDIA executable is present and amd-container-runtime is, and
\* never together with any "nvidia*" driver.
C14_AtMostOneVendor ==
  Probed =>
    /\ Registered("amd") <=> (~HookProbed /\ ~CDIHookProbed /\ AMDProbed)
    /\ ~(Registered("amd") /\ DOMAIN deviceDrivers \cap NvidiaNames # {})

C14_Witness ==
  /\ phase = "probed" /\ probedPath = Executables
  /\ ~Registered("amd") /\ Registered("nvidia")

\* C15: the dedicated drivers "nvidia.runtime-hook" and "nvidia.cdi" are
\* registered exactly when their own executable is present, always with a nil
\* capability set, so they are candidates only for a request naming them; the
\* only NVIDIA driver with a non-nil capability set is "nvidia", with exactly
\* {gpu, nvidia, compute, compat32, graphics, utility, video, display}.
C15_DedicatedDriversNotAdvertised ==
  Probed =>
    /\ Registered("nvidia.runtime-hook") <=> HookProbed
    /\ Registered("nvidia.cdi") <=> CDIHookProbed
    /\ \A n \in DOMAIN deviceDrivers \cap DedicatedNames :
         /\ deviceDrivers[n].capset.isNil
         /\ n \in candidates(deviceDrivers, dev.req) <=> dev.req.Driver = n
    /\ \A n \in DOMAIN deviceDrivers \cap NvidiaNames :
         ~deviceDrivers[n].capset.isNil => n = "nvidia"
    /\ Registered("nvidia") =>
         /\ ~deviceDrivers["nvidia"].capset.isNil
         /\ deviceDrivers["nvidia"].capset.labels =
              {"gpu", "nvidia", "compute", "compat32", "graphics", "utility", "video",
               "display"}

C15_Witness ==
  /\ Resolved /\ HookProbed /\ CDIHookProbed
  /\ dev.req.Driver = "nvidia.runtime-hook"
  /\ Len(last.trace) = 1 /\ last.trace[1].fn = SetNvidiaGPUsFunc
  /\ last.trace[1].dev.selectedCaps = <<>>

\* C16: the composite of the "nvidia" driver orders its mechanisms CDI first,
\* legacy hook second: whenever both executables were present at probe time,
\* for any request dispatched through it the hook mutator is invoked only
\* after the CDI injector has been invoked and has failed.
C16_CDIBeforeHook ==
  (Resolved /\ HookProbed /\ CDIHookProbed /\ Len(last.trace) > 0
     /\ last.trace[1].fn.fn = "firstSuccessful") =>
    /\ last.trace[1].fn = deviceDrivers["nvidia"].updateSpec
    /\ last.trace[1].fn.h = <<InjectDevicesFunc(<<"nvidia.com/gpu">>), SetNvidiaGPUsFunc>>
    /\ \A k \in 1..Len(Top) :
         Top[k].fn = SetNvidiaGPUsFunc =>
           (k = 2 /\ Top[1].fn.fn = "injectDevices" /\ Top[1].err # Nil)

C16_Witness ==
  /\ Resolved /\ HookProbed /\ CDIHookProbed
  /\ Len(Top) = 2 /\ Top[1].err # Nil
  /\ Top[2].fn = SetNvidiaGPUsFunc /\ Top[2].err = Nil /\ last.err = Nil

\* C17: if none of the three helper executables is present at probe time,
\* probing registers no driver at all, so no registered driver advertises
\* the "gpu" capability; probing itself completes without error.
C17_NoToolingNoGPU ==
  (Probed /\ probedPath = {}) =>
    /\ DOMAIN deviceDrivers \subseteq {"cdi"}
    /\ phase = "probed" => DOMAIN deviceDrivers = {}
    /\ \A n \in DOMAIN deviceDrivers :
         deviceDrivers[n].capset.isNil \/ "gpu" \notin deviceDrivers[n].capset.labels

C17_Witness ==
  /\ phase = "ready" /\ probedPath = {} /\ DOMAIN deviceDrivers = {}
  /\ Resolved /\ dev.req.Driver = "" /\ last.err.kind = "incompatibleDeviceRequest"

(***************************************************************************)
(* End-to-end scenarios and the entries of the hook mutator                *)
(***************************************************************************)
\* C18: the request {DeviceIDs: ["0","1"], Capabilities: [["compute"]]} with
\* selected capability "compute", applied once by setNvidiaGPUs with the
\* hook executable present, appends exactly NVIDIA_VISIBLE_DEVICES=0,1 and
\* then NVIDIA_DRIVER_CAPABILITIES=compute, appends exactly one prestart
\* hook, and changes nothing else.
HookScenario ==
  /\ last.op = "setNvidiaGPUs" /\ HookOnPath
  /\ dev.req.DeviceIDs = << <<"0">>, <<"1">> >> /\ dev.req.Count = 0
  /\ dev.req.Capabilities = << <<"compute">> >>
  /\ dev.selectedCaps = <<"compute">>

C18_HookScenario ==
  HookScenario =>
    /\ last.err = Nil
    /\ spec.Process.Env =
         last.before.Process.Env
           \o << <<"NVIDIA_VISIBLE_DEVICES=", "0", ",", "1">>,
                 <<"NVIDIA_DRIVER_CAPABILITIES=", "compute">> >>
    /\ ~spec.Hooks.isNil
    /\ spec.Hooks.Prestart =
         last.before.Hooks.Prestart
           \o << [Path |-> <<"/usr/bin/", "nvidia-container-runtime-hook">>,
                  Args |-> <<"nvidia-container-runtime-hook", "prestart">>,
                  Env |-> osEnviron] >>
    /\ spec.CDIDevices = last.before.CDIDevices
    /\ last.trace = <<>>

C18_Witness ==
  /\ HookScenario /\ ncalls = 1
  /\ Len(spec.Process.Env) = 2 /\ Len(spec.Hooks.Prestart) = 1

\* C19: the request {Capabilities: [["gpu"]], Count: 2}, resolved through a
\* registry that has only the CDI path (nvidia-cdi-hook present at probe
\* time, hook runner absent, a "cdi" driver registered), hands the "cdi"
\* driver exactly "nvidia.com/gpu=0" and "nvidia.com/gpu=1" in that order,
\* and neither the environment nor the hooks of the specification change.
CDIScenario ==
  /\ Resolved /\ CDIHookProbed /\ ~HookProbed /\ CDIRegistered
  /\ dev.req.Driver = "" /\ dev.req.Capabilities = << <<"gpu">> >>
  /\ dev.req.Count = 2 /\ dev.req.DeviceIDs = <<>>

C19_CDIScenario ==
  CDIScenario =>
    /\ Len(Delegations) = 1
    /\ Delegations[1].fn = deviceDrivers["cdi"].updateSpec
    /\ Delegations[1].dev.req.DeviceIDs =
         << <<"nvidia.com/gpu", "=", "0">>, <<"nvidia.com/gpu", "=", "1">> >>
    /\ \A k \in 1..Len(last.trace) : last.trace[k].fn # SetNvidiaGPUsFunc
    /\ spec.Process.Env = last.before.Process.Env
    /\ spec.Hooks = last.before.Hooks

C19_Witness ==
  /\ CDIScenario /\ last.err = Nil /\ Len(Delegations) = 1
  /\ spec.CDIDevices =
       last.before.CDIDevices
         \o << <<"nvidia.com/gpu", "=", "0">>, <<"nvidia.com/gpu", "=", "1">> >>

\* every invocation of the hook mutator in the last call: called directly,
\* by firstSuccessful, or through the registry
HookInvocations ==
  (IF last.op = "setNvidiaGPUs"
   THEN {[dev |-> dev, s0 |-> last.before, s1 |-> spec, err |-> last.err]}
   ELSE {})
  \cup
  (IF AnyCall
   THEN {[dev |-> last.trace[k].dev, s0 |-> last.trace[k].s0, s1 |-> last.trace[k].s1,
          err |-> last.trace[k].err] :
           k \in {j \in 1..Len(last.trace) : last.trace[j].fn = SetNvidiaGPUsFunc}}
   ELSE {})

AllowList == {"compute", "compat32", "graphics", "utility", "video", "display"}

\* what an invocation appended to the environment of the specification
AddedEnv(e) == SubSeq(e.s1.Process.Env, Len(e.s0.Process.Env) + 1, Len(e.s1.Process.Env))

\* the entries C20 describes for an invocation
HookEntries(e) ==
  LET ids == getRequestedDevicesIDs(e.dev.req)
      caps == SelectSeq(e.dev.selectedCaps, LAMBDA c : c \in AllowList)
  IN << <<"NVIDIA_VISIBLE_DEVICES=">> \o Join(ids, ",") >>
     \o (IF Len(caps) >= 1
         THEN << <<"NVIDIA_DRIVER_CAPABILITIES=">>
                 \o Join([k \in 1..Len(caps) |-> <<caps[k]>>], ",") >>
         ELSE <<>>)

AppendsHookEntries(e) ==
  /\ IsPrefix(e.s0.Process.Env, e.s1.Process.Env)
  /\ AddedEnv(e) = HookEntries(e)
  /\ \A k \in 1..Len(AddedEnv(e)) :
       \A j \in 2..Len(AddedEnv(e)[k]) : AddedEnv(e)[k][j] \notin {"gpu", "nvidia"}

\* C20 as stated: for every request that resolves to at least one device the
\* hook mutator appends NVIDIA_VISIBLE_DEVICES with the identifiers
\* comma-joined in order, then NVIDIA_DRIVER_CAPABILITIES if and only if a
\* selected capability is in the allow-list, valued with the allow-listed
\* selected capabilities in their selected order.
C20_HookAppendsEntries ==
  \A e \in HookInvocations :
    Len(getRequestedDevicesIDs(e.dev.req)) >= 1 => AppendsHookEntries(e)

\* C20, amended: the same for every request that resolves to at least one
\* device and does not set both Count and DeviceIDs (such a request is
\* rejected before anything is appended).
C20_HookAppendsEntriesUnlessConflicting ==
  \A e \in HookInvocations :
    (Len(getRequestedDevicesIDs(e.dev.req)) >= 1
       /\ ~(e.dev.req.Count # 0 /\ Len(e.dev.req.DeviceIDs) > 0))
      => AppendsHookEntries(e)

C20_Witness ==
  \E e \in HookInvocations :
    /\ e.dev.selectedCaps = <<"gpu", "utility", "compute">>
    /\ e.dev.req.Count = 2 /\ e.dev.req.DeviceIDs = <<>>
    /\ AddedEnv(e) = << <<"NVIDIA_VISIBLE_DEVICES=", "0", ",", "1">>,
                        <<"NVIDIA_DRIVER_CAPABILITIES=", "utility", ",", "compute">> >>

(***************************************************************************)
(* Repeated calls, fallback, failures and frames                           *)
(***************************************************************************)
\* the number of places of seq that hold x
Copies(seq, x) == Cardinality({k \in 1..Len(seq) : seq[k] = x})

\* the entries and the hook setNvidiaGPUs appends for the instance dev
DevEntries == HookEntries([dev |-> dev])
DevHook == NvidiaHook(LookPath(nvidiaContainerRuntimeHookExecutableName, onPath).path)

SuccessfulHookCall(l) ==
  /\ l.op = "setNvidiaGPUs" /\ l.err = Nil
  /\ Len(getRequestedDevicesIDs(dev.req)) >= 1

\* C21: calling setNvidiaGPUs twice with the same device instance on the same
\* specification appends the device-visibility entry, the capabilities entry
\* and the prestart hook twice: every successful call adds one more copy of
\* each, and after two successful calls the specification holds two copies
\* of each; duplicates are neither detected nor suppressed.
C21_SecondCallDuplicates ==
  [][(ncalls' = ncalls + 1 /\ SuccessfulHookCall(last'))
       => /\ spec'.Process.Env = spec.Process.Env \o DevEntries
          /\ spec'.Hooks.Prestart = spec.Hooks.Prestart \o <<DevHook>>
          /\ \A k \in 1..Len(DevEntries) :
               Copies(spec'.Process.Env, DevEntries[k])
                 = Copies(spec.Process.Env, DevEntries[k]) + 1
          /\ Copies(spec'.Hooks.Prestart, DevHook) = Copies(spec.Hooks.Prestart, DevHook) + 1
          /\ (ncalls = 1 /\ SuccessfulHookCall(last)) =>
               /\ spec'.Process.Env = DevEntries \o DevEntries
               /\ spec'.Hooks.Prestart = <<DevHook, DevHook>>]_vars

C21_Witness ==
  /\ ncalls = 2 /\ SuccessfulHookCall(last)
  /\ Len(DevEntries) = 2
  /\ spec.Process.Env = DevEntries \o DevEntries
  /\ spec.Hooks.Prestart = <<DevHook, DevHook>>
  /\ last.before.Process.Env = DevEntries

\* a request for at least one device dispatched through the composite of the
\* "nvidia" driver, both NVIDIA executables probed, no "cdi" driver registered
FallbackScenario ==
  /\ Resolved /\ HookProbed /\ CDIHookProbed /\ ~CDIRegistered
  /\ Len(last.trace) > 0 /\ last.trace[1].fn.fn = "firstSuccessful"
  /\ Len(getRequestedDevicesIDs(dev.req)) >= 1

\* the CDI injector fails for want of a "cdi" driver, the hook mutator is
\* tried next, and the dispatch succeeds with the hook mutator's entries and
\* prestart hook whenever the hook executable is found, failing otherwise
FallsBackToHook ==
  /\ Len(Top) = 2
  /\ Top[1].fn = InjectDevicesFunc(<<"nvidia.com/gpu">>)
  /\ IsNoCDIDriverError(Top[1].err, dev.req)
  /\ Top[1].s1 = last.before
  /\ Top[2].fn = SetNvidiaGPUsFunc
  /\ Top[2].dev = Top[1].dev /\ Top[2].dev.req = dev.req
  /\ HookOnPath =>
       /\ last.err = Nil /\ Top[2].err = Nil
       /\ spec.Process.Env = last.before.Process.Env \o HookEntries(Top[2])
       /\ spec.Hooks.Prestart = last.before.Hooks.Prestart \o <<DevHook>>
       /\ spec.CDIDevices = last.before.CDIDevices
  /\ ~HookOnPath => (last.err # Nil /\ Top[2].err.kind = "exec.ErrNotFound")

\* C22 as stated: with both NVIDIA executables present at probe time and no
\* "cdi" driver registered, a request for at least one device first gets the
\* CDI injector's mechanism-unavailable failure, then falls back to the hook
\* mutator, and the dispatch succeeds with exactly the hook mutator's entries
\* and prestart hook whenever the hook executable is still found.
C22_FallbackToHookSucceeds ==
  FallbackScenario => FallsBackToHook

\* C22, amended: the same for a request that does not set both Count and
\* DeviceIDs; a failure is fatal only when it is the last mechanism's.
C22_FallbackToHookSucceedsUnlessConflicting ==
  (FallbackScenario /\ ~Conflicting(dev)) => FallsBackToHook

C22_Witness ==
  /\ FallbackScenario /\ ~Conflicting(dev) /\ HookOnPath
  /\ Len(Top) = 2 /\ Top[1].err # Nil /\ last.err = Nil
  /\ Len(spec.Process.Env) = Len(last.before.Process.Env) + 2
  /\ Len(spec.Hooks.Prestart) = Len(last.before.Hooks.Prestart) + 1

\* C23: whenever setNvidiaGPUs returns a failure (conflicting request, or
\* hook executable not found on the search path at request time), the process
\* environment and the hooks of the specification are exactly what they were
\* before the call.
C23_FailedHookCallLeavesNothing ==
  \A e \in HookInvocations :
    e.err # Nil =>
      /\ e.s1.Process.Env = e.s0.Process.Env
      /\ e.s1.Hooks = e.s0.Hooks

\* the composite the "nvidia" driver must hold for what was probed
ProbedComposite ==
  (IF CDIHookProbed THEN <<InjectDevicesFunc(<<"nvidia.com/gpu">>)>> ELSE <<>>)
  \o (IF HookProbed THEN <<SetNvidiaGPUsFunc>> ELSE <<>>)

\* C24: for every combination of present executables, the "nvidia" driver is
\* registered if and only if at least one of the two NVIDIA executables is
\* present, and whenever it is registered its composite holds at least one
\* non-nil mutation function (the CDI injector, the hook mutator, or both in
\* that order), so a request dispatched through it always invokes one.
C24_NvidiaCompositeNeverEmpty ==
  Probed =>
    /\ Registered("nvidia") <=> (HookProbed \/ CDIHookProbed)
    /\ Registered("nvidia") =>
         LET f == deviceDrivers["nvidia"].updateSpec IN
         /\ f.fn = "firstSuccessful"
         /\ f.h = ProbedComposite
         /\ \E k \in 1..Len(f.h) : f.h[k] # NilFunc
         /\ \A k \in 1..Len(f.h) : f.h[k] # NilFunc
    /\ (Resolved /\ Len(last.trace) > 0 /\ last.trace[1].fn.fn = "firstSuccessful")
         => Len(Top) >= 1

C24_Witness ==
  /\ Resolved /\ CDIHookProbed /\ ~HookProbed /\ Registered("nvidia")
  /\ Len(last.trace) > 0
  /\ last.trace[1].fn = FirstSuccessfulFunc(<<InjectDevicesFunc(<<"nvidia.com/gpu">>)>>)
  /\ Len(Top) = 1

\* the device instance the call recorded in l was made with: the caller's,
\* or the one handleDevice created for the caller's request
GivenInstance(l, d) == IF l.op = "handleDevice" THEN l.trace[1].dev ELSE d

\* C25: no mutator modifies the device instance it is given: after
\* injectDevices, setNvidiaGPUs or firstSuccessful returns, the caller's
\* request and selected capabilities are unchanged, every updateSpec function
\* leaves the instance it was given as it was, and every mechanism of a
\* composite is given the same instance, also after the CDI injector built
\* its synthesized instance.
C25_DeviceInstanceNotModified ==
  [][ncalls' # ncalls =>
       /\ dev' = dev
       /\ \A k \in 1..Len(last'.trace) :
            /\ last'.trace[k].dev1 = last'.trace[k].dev
            /\ last'.trace[k].by \in {"firstSuccessful", "handleDevice"}
                 => last'.trace[k].dev = GivenInstance(last', dev)]_vars

C25_Witness ==
  /\ Dispatched /\ Len(Top) = 2 /\ Len(Delegations) = 1
  /\ Top[1].fn.fn = "injectDevices" /\ Top[1].err # Nil
  /\ Delegations[1].dev # dev /\ Delegations[1].dev.req.Count # dev.req.Count
  /\ Top[2].fn = SetNvidiaGPUsFunc /\ Top[2].dev = dev /\ Top[2].err = Nil

(***************************************************************************)
(* responseHookTransport.RoundTrip (checked under SpecRoundTrip)           *)
(***************************************************************************)
RoundTripped == fn.name = "RoundTrip"

\* the places of the non-nil hooks of the transport, and of the first of them
\* that fails (0 if none does)
NonNilHooks == {k \in 1..Len(fn.t.hooks) : ~fn.t.hooks[k].isNil}
Failing == {k \in NonNilHooks : fn.t.hooks[k].err # Nil}
FirstFailing == IF Failing = {} THEN 0 ELSE CHOOSE k \in Failing : \A j \in Failing : k <= j

\* the hooks that must have been invoked, in list order
RECURSIVE Ascending(_)
Ascending(S) ==
  IF S = {} THEN <<>>
  ELSE LET m == CHOOSE k \in S : \A j \in S : k <= j IN <<m>> \o Ascending(S \ {m})

InvokedHooks ==
  Ascending({k \in NonNilHooks : FirstFailing = 0 \/ k <= FirstFailing})

\* C26: RoundTrip calls the base transport exactly once; if the base fails
\* it invokes no hook and returns that error with no response; otherwise it
\* invokes the non-nil hooks in list order on the response, and at the first
\* hook that fails it closes the response body exactly once, invokes no
\* later hook and returns that hook's error with no response; only when
\* every hook succeeds does it return the base response, with its body open.
C26_RoundTripRunsHooksUntilFailure ==
  RoundTripped =>
    /\ fn.ret.base.calls = 1 /\ fn.ret.base.result = fn.t.base.result
    /\ fn.t.base.result.err # Nil =>
         /\ fn.ret.err = fn.t.base.result.err
         /\ fn.ret.resp = NilResponse
         /\ fn.ret.obj = fn.t.base.result.resp
    /\ fn.t.base.result.err = Nil =>
         /\ fn.ret.obj.id = fn.t.base.result.resp.id
         /\ fn.ret.obj.seen = InvokedHooks
         /\ FirstFailing # 0 =>
              /\ fn.ret.obj.closes = 1
              /\ fn.ret.err = fn.t.hooks[FirstFailing].err
              /\ fn.ret.resp = NilResponse
         /\ FirstFailing = 0 =>
              /\ fn.ret.err = Nil
              /\ fn.ret.resp = fn.ret.obj
              /\ ~fn.ret.resp.isNil
              /\ fn.ret.resp.closes = 0
    /\ (~fn.ret.resp.isNil) <=> (fn.t.base.result.err = Nil /\ FirstFailing = 0)

C26_Witness ==
  /\ RoundTripped /\ fn.t.base.result.err = Nil
  /\ Len(fn.t.hooks) = 3 /\ fn.t.hooks[1].isNil
  /\ FirstFailing = 2 /\ 3 \in Failing
  /\ fn.ret.obj.seen = <<2>> /\ fn.ret.obj.closes = 1
  /\ fn.ret.err = HookError(2) /\ fn.ret.resp = NilResponse

====
